---- MODULE Spec2Model ----
(***************************************************************************)
(* A model of ssbh.py, the Singularity sandbox build helper.                *)
(*                                                                         *)
(*   Spec      one run of main(): argument dispatch, the profile's         *)
(*             prechecks, the build and the profile's recipe               *)
(*   SpecScan  ps_bins() scanning /proc while processes exit               *)
(*   SpecOS    OSrelease: construction and attribute lookup                *)
(*   SpecFile  Singularity.mkfile called repeatedly on one sandbox         *)
(*                                                                         *)
(* Paths are sequences of components, "/" first when absolute.  Text is a  *)
(* sequence of tokens, NL being the newline.                               *)
(***************************************************************************)
EXTENDS Integers, Sequences, FiniteSets, TLC

VARIABLES
    args,        \* main: what the command line selected (name, image_path, options)
    host,        \* what the run finds on the host (user, `which`, machine, target)
    pc,          \* position of the run: main, unc, hb, dd, run, error, exit
    recipe,      \* arguments the profile constructor passes up to DistroDocker
    image_path,  \* Singularity.image_path
    sandbox,     \* the target path: absent, preexisting, partial, built
    ps,          \* the set ps_bins() returned to the profile
    todo,        \* the calls still to make, in program order
    log,         \* build, exec and file operations started so far
    calls,       \* calls of update() and update_distro() made so far
    dd_updated,  \* DistroDocker._dd_updated
    fs,          \* files written or found: path -> [data, perms]
    osfiles,     \* os-release candidates under the root OSrelease reads
    cfg,         \* Homebridge: data['platforms'] as loaded and as modified
    err,         \* the exception that ended the constructor, "" if none
    exit,        \* exit status of the process, -1 while it runs
    \* ps_bins
    proc,        \* /proc entry -> TRUE while the process is alive
    scan,        \* position of the scan: glob, loop, open, read, returned, raised
    pending,     \* entries the glob has enumerated and not yet yielded
    cur,         \* the entry the loop body holds
    s,           \* the set ps_bins accumulates
    \* OSrelease
    os,          \* the OSrelease object: [state, fname, data, reads]
    mode,        \* [case_sensitive, exact]
    got,         \* last __getattr__: [attr, value, raised]
    \* mkfile
    last         \* last operation of SpecFile: the call, its outcome, fs before it

runVars  == <<args, host, pc, recipe, image_path, sandbox, ps, todo, log,
              calls, dd_updated, cfg, err, exit>>
scanVars == <<proc, scan, pending, cur, s>>
osVars   == <<os, mode, got>>
vars     == <<runVars, fs, osfiles, scanVars, osVars, last>>

(* ------------------------------ bounds -------------------------------- *)
MaxPlatforms == 2     \* entries of data['platforms']
MaxRows      == 2     \* rows of an os-release file
MaxProcs     == 2     \* numeric entries of /proc

(* ------------------------------ text ---------------------------------- *)
NL == "\n"

RECURSIVE Join(_)
\* '\n'.join(lines)
Join(lines) ==
    IF lines = <<>> THEN <<>>
    ELSE IF Len(lines) = 1 THEN lines[1]
    ELSE lines[1] \o <<NL>> \o Join(Tail(lines))

Str(t)   == [islist |-> FALSE, str |-> t, lines |-> <<>>]
List(ls) == [islist |-> TRUE, str |-> <<>>, lines |-> ls]

(* ------------------------------ paths --------------------------------- *)
cwd == <<"/", "work">>

IsAbs(p) == p # <<>> /\ p[1] = "/"

\* Path(a, b): an absolute b replaces a
PathJoin(a, b) == IF IsAbs(b) THEN b ELSE a \o b

\* Path.resolve() of a path without symlinks or dots
Resolve(p) == PathJoin(cwd, p)

IsPrefix(a, b) == Len(a) <= Len(b) /\ SubSeq(b, 1, Len(a)) = a
Inside(dir, p) == IsPrefix(dir, p) /\ Len(dir) < Len(p)

(* ------------------------------ mkfile -------------------------------- *)
DefaultPerms == 420      \* 0o644
ExecPerms    == 493      \* 0o755

\* the text mkfile writes for `data`
Content(data) == IF data.islist THEN Join(data.lines) \o <<NL>> ELSE data.str

\* mkfile without the test for an existing file
mkfile_overwrite(fsys, ip, rel_name, data, perms, permitted) ==
    LET p == PathJoin(ip, rel_name) IN
    IF ~permitted
    THEN [fs |-> fsys, p |-> p, raised |-> "PermissionError"]
    ELSE [fs |-> (p :> [data |-> Content(data), perms |-> perms]) @@ fsys,
          p |-> p, raised |-> ""]

\* Singularity.mkfile on the file system fsys; `permitted` is whether the
\* host lets open(p, 'w') create the file
mkfile(fsys, ip, rel_name, data, perms, permitted) ==
    LET p == PathJoin(ip, rel_name) IN
    IF p \in DOMAIN fsys
    THEN [fs |-> fsys, p |-> p, raised |-> "FileExistsError"]
    ELSE IF ~permitted
    THEN [fs |-> fsys, p |-> p, raised |-> "PermissionError"]
    ELSE [fs |-> (p :> [data |-> Content(data), perms |-> perms]) @@ fsys,
          p |-> p, raised |-> ""]

\* whether the host lets the run create p: the sandbox belongs to the user
Permits(ip, p) == IF Inside(ip, p) THEN {TRUE} ELSE BOOLEAN

(* ------------------------------ OSrelease ----------------------------- *)
Candidates == <<"etc/os-release", "usr/lib/os-release">>

Defaults == ("NAME" :> "Linux") @@ ("ID" :> "linux") @@ ("PRETTY_NAME" :> "Linux")

NoFile == [exists |-> FALSE, rows |-> <<>>]
File(rows) == [exists |-> TRUE, rows |-> rows]

RECURSIVE DictOf(_)
\* dict(rows): a later row replaces an earlier one with the same key
DictOf(rows) ==
    IF rows = <<>> THEN <<>>
    ELSE LET r == rows[Len(rows)]
         IN (r[1] :> r[2]) @@ DictOf(SubSeq(rows, 1, Len(rows) - 1))

\* dict() takes rows of two fields only
WellFormed(rows) == \A i \in 1..Len(rows) : Len(rows[i]) = 2

RECURSIVE OSrelease_loop_both(_, _, _)
\* the loop without its break: every existing candidate is parsed
OSrelease_loop_both(files, i, o) ==
    IF i > Len(Candidates) THEN o
    ELSE IF files[Candidates[i]].exists
    THEN IF WellFormed(files[Candidates[i]].rows)
         THEN OSrelease_loop_both(files, i + 1,
                  [state |-> "ok", fname |-> Candidates[i],
                   data |-> DictOf(files[Candidates[i]].rows),
                   reads |-> Append(o.reads, Candidates[i])])
         ELSE [state |-> "ValueError", fname |-> "", data |-> Defaults,
               reads |-> Append(o.reads, Candidates[i])]
    ELSE OSrelease_loop_both(files, i + 1, o)

OSrelease_nobreak(files, i) ==
    OSrelease_loop_both(files, i,
        [state |-> "ok", fname |-> "", data |-> Defaults, reads |-> <<>>])

RECURSIVE OSrelease_loop(_, _)
\* the loop over the candidate names, from candidate i
OSrelease_loop(files, i) ==
    IF i > Len(Candidates)
    THEN [state |-> "ok", fname |-> "", data |-> Defaults, reads |-> <<>>]
    ELSE IF files[Candidates[i]].exists
    THEN IF WellFormed(files[Candidates[i]].rows)
         THEN [state |-> "ok", fname |-> Candidates[i],
               data |-> DictOf(files[Candidates[i]].rows),
               reads |-> <<Candidates[i]>>]
         ELSE [state |-> "ValueError", fname |-> "", data |-> Defaults,
               reads |-> <<Candidates[i]>>]
    ELSE OSrelease_loop(files, i + 1)

\* OSrelease.__init__
OSrelease(files) == OSrelease_loop(files, 1)

\* str.upper() on the attribute names used
Upper(a) ==
    CASE a = "id" -> "ID"
      [] a = "Id" -> "ID"
      [] a = "name" -> "NAME"
      [] a = "pretty_name" -> "PRETTY_NAME"
      [] a = "version_id" -> "VERSION_ID"
      [] OTHER -> a

\* OSrelease.__getattr__
getattr(o, m, attr) ==
    LET a == IF ~m.case_sensitive THEN Upper(attr) ELSE attr IN
    IF m.exact /\ a \notin DOMAIN o.data
    THEN [attr |-> attr, value |-> "", raised |-> "AttributeError"]
    ELSE [attr |-> attr,
          value |-> IF a \in DOMAIN o.data THEN o.data[a] ELSE "",
          raised |-> ""]

DefaultMode == [case_sensitive |-> FALSE, exact |-> FALSE]

(* ------------------------------ the run: inputs ----------------------- *)
Profiles == {"alpine", "fedora", "ubuntu", "unc", "hb"}

\* -i: unset, a bare name, a relative path, an absolute path
ImagePathArgs == {<<>>, <<"sb">>, <<"sub", "sb">>, <<"/", "tmp", "sb">>}

\* first fields of the command lines ps_bins may find
ProcNames == {"unifi", "/opt/unifi", "/usr/sbin/haveged", "avahi-daemon: running"}

\* name.endswith('/haveged')
EndsWithHaveged(name) == name = "/usr/sbin/haveged"
\* 'avahi-daemon:' in name
HasAvahi(name) == name = "avahi-daemon: running"

Perms(S) == {f \in [1..Cardinality(S) -> S] : \A i, j \in DOMAIN f : i # j => f[i] # f[j]}

\* str.lower() on the values of -o upgrade=
Lower(v) == IF v = "Yes" THEN "yes" ELSE v

\* main: the keyword arguments built from the -o options
sb_keys(a) ==
    (IF a.tag # "" THEN {"tag"} ELSE {}) \cup
    (IF a.pkgs # <<>> THEN {"pkgs"} ELSE {}) \cup
    (IF a.upgrade # "" THEN {"upgrade"} ELSE {}) \cup
    (IF a.bad THEN {"colour"} ELSE {})

\* the keywords each constructor takes besides image_path
Accepted(name) ==
    IF name \in {"unc", "hb"} THEN {} ELSE {"tag", "pkgs", "upgrade"}

\* main: coercion of upgrade=
Coerce(v) == Lower(v) \in {"y", "yes", "t", "true"}

(* ------------------------------ the run: calls ------------------------ *)
Item(fn, by, cmd, rel, data, perms) ==
    [fn |-> fn, by |-> by, idx |-> 0, cmd |-> cmd, rel |-> rel,
     data |-> data, perms |-> perms]

Call(fn, by)      == Item(fn, by, <<>>, <<>>, Str(<<>>), 0)
CallWith(fn, by, pkg_list) == Item(fn, by, pkg_list, <<>>, Str(<<>>), 0)
ExecItem(cmd, by) == Item("exec", by, cmd, <<>>, Str(<<>>), 0)
MkfileItem(rel, data, perms, by) == Item("mkfile", by, <<>>, rel, data, perms)

\* the top-level steps of a recipe, numbered in program order
Numbered(items) == [i \in 1..Len(items) |-> [items[i] EXCEPT !.idx = i]]
\* the calls a step makes belong to that step
Within(it, items) == [i \in 1..Len(items) |-> [items[i] EXCEPT !.idx = it.idx]]

Op(op, it, path, cmd, rc, raised) ==
    [op |-> op, by |-> it.by, idx |-> it.idx, path |-> path, cmd |-> cmd,
     perms |-> it.perms, rc |-> rc, raised |-> raised]

\* DistroDocker.__init__: the package string once the editor is added
dd_pkgs(r) == IF r.editor # "vi" THEN r.pkgs \o <<r.editor>> ELSE r.pkgs

\* the extra steps with install and upgrade put in front of the given ones
dd_extras_first(r) ==
    LET e1 == r.extras
        e2 == IF dd_pkgs(r) # <<>> /\ ~(\E i \in 1..Len(e1) : e1[i] = "install")
              THEN <<"install">> \o e1 ELSE e1
    IN IF r.upgrade THEN <<"upgrade">> \o e2 ELSE e2

\* DistroDocker.__init__: the names of the extra steps, in the order run
dd_extras(r) ==
    LET e1 == r.extras
        e2 == IF dd_pkgs(r) # <<>> /\ ~(\E i \in 1..Len(e1) : e1[i] = "install")
              THEN Append(e1, "install") ELSE e1
    IN IF r.upgrade THEN Append(e2, "upgrade") ELSE e2

DefaultExtras == <<"localtime", "helpers", "mkenv">>

Recipe(name, ip, tag, pkgs, upgrade) ==
    [name |-> name, image_path |-> ip, tag |-> tag, editor |-> "nano",
     editor_args |-> "", extras |-> DefaultExtras, pkgs |-> pkgs,
     upgrade |-> upgrade]

NoRecipe == Recipe("", <<>>, "", <<>>, FALSE)

\* Singularity.__init__: the resolved image path
resolved_path(ip) ==
    IF Len(ip) = 1 THEN Resolve(PathJoin(cwd, ip)) ELSE Resolve(ip)

UncPkgs == <<"dialog", "less", "logrotate", "procps", "apt-transport-https",
             "ca-certificates", "gnupg", "wget", "mongodb-server">>

HbPkgs == <<"dialog", "less", "gcc", "g++", "make", "python", "net-tools", "wget">>

\* UnifiNetworkController.__init__ after super().__init__
unc_steps(tag) ==
    <<ExecItem(<<"apt-key", "adv", "--keyserver", "keyserver.ubuntu.com",
                 "--recv", "06E85760C0A52C50">>, "unc"),
      MkfileItem(<<"etc", "apt", "sources.list.d", "100-ubnt-unifi.list">>,
                 List(<<<<"deb https://www.ui.com/downloads/unifi/debian stable ubiquiti">>>>),
                 DefaultPerms, "unc"),
      Call("update_distro", "unc")>>
    \o (IF tag # "xenial"
        THEN <<ExecItem(<<"apt-mark", "hold", "openjdk-1?-*">>, "unc")>>
        ELSE <<>>)
    \o <<CallWith("install_distro", "unc", <<"openjdk-8-jre-headless", "unifi">>),
         ExecItem(<<"apt", "autoremove", "-y">>, "unc")>>

\* Homebridge.__init__ after super().__init__
hb_steps ==
    <<ExecItem(<<"wget", "-O", "/nodejs_lts_installer.bash",
                 "https://deb.nodesource.com/setup_16.x">>, "hb"),
      ExecItem(<<"bash", "/nodejs_lts_installer.bash">>, "hb"),
      CallWith("install_distro", "hb", <<"nodejs">>),
      ExecItem(<<"npm", "install", "--global", "--unsafe-perm", "homebridge",
                 "homebridge-config-ui-x">>, "hb"),
      ExecItem(<<"hb-service", "install", "--user", "root">>, "hb"),
      Call("mkdir", "hb"),
      Call("config", "hb")>>

\* what the selected constructor does once DistroDocker.__init__ returns
app_steps(name, tag) ==
    CASE name = "unc" -> unc_steps(tag)
      [] name = "hb"  -> hb_steps
      [] OTHER        -> <<>>

\* the extra steps run before the build
plan_build_late(name, r) ==
    Numbered([i \in 1..Len(r.extras) |-> Call(r.extras[i], "dd")]
             \o <<Call("build", "dd")>>
             \o app_steps(name, r.tag))

\* DistroDocker.__init__ from the build on, then the subclass's own steps
plan(name, r) ==
    Numbered(<<Call("build", "dd")>>
             \o [i \in 1..Len(dd_extras(r)) |-> Call(dd_extras(r)[i], "dd")]
             \o app_steps(name, r.tag))

\* the per-distro package verbs
update_distro(distro) ==
    CASE distro = "alpine" -> <<ExecItem(<<"apk", "update">>, "update_distro")>>
      [] distro = "ubuntu" -> <<ExecItem(<<"apt", "-y", "update">>, "update_distro")>>
      [] OTHER -> <<>>

upgrade_distro(distro) ==
    CASE distro = "alpine" -> <<ExecItem(<<"apk", "upgrade">>, "upgrade_distro")>>
      [] distro = "fedora" -> <<ExecItem(<<"dnf", "-y", "upgrade">>, "upgrade_distro")>>
      [] distro = "ubuntu" -> <<ExecItem(<<"apt", "-y", "upgrade">>, "upgrade_distro")>>
      [] OTHER -> <<>>

install_distro(distro, pkg_list) ==
    CASE distro = "alpine" ->
           <<ExecItem(<<"apk", "add">> \o pkg_list, "install_distro")>>
      [] distro = "fedora" ->
           <<ExecItem(<<"dnf", "-y", "install">> \o pkg_list, "install_distro")>>
      [] distro = "ubuntu" ->
           <<ExecItem(<<"apt", "-y", "install">> \o pkg_list, "install_distro")>>
      [] OTHER -> <<>>

\* DistroDocker.update
update(updated) ==
    IF ~updated
    THEN <<Call("update_distro", "update"), Call("set_updated", "update")>>
    ELSE <<>>

\* DistroDocker.upgrade
upgrade == <<Call("update", "upgrade"), Call("upgrade_distro", "upgrade")>>

\* DistroDocker.install
install(pkgs) ==
    IF pkgs # <<>>
    THEN <<Call("update", "install"), CallWith("install_distro", "install", pkgs)>>
    ELSE <<>>

\* Singularity.helpers
helpers ==
    <<MkfileItem(<<"usr", "local", "bin", "ll">>,
                 List(<<<<"#!/bin/sh">>, <<"/bin/ls --color=auto -lFh \"$@\"">>>>),
                 ExecPerms, "helpers"),
      MkfileItem(<<"usr", "local", "bin", "la">>,
                 List(<<<<"#!/bin/sh">>, <<"/bin/ls --color=auto -lFha \"$@\"">>>>),
                 ExecPerms, "helpers"),
      MkfileItem(<<"usr", "local", "bin", "e">>,
                 List(<<<<"#!/bin/sh">>, <<"test -z \"$EDITOR\" && EDITOR=\"vi\"">>,
                        <<"$EDITOR $EDITOR_ARGUMENTS \"$@\"">>>>),
                 ExecPerms, "helpers")>>

EnvFile == <<".singularity.d", "env", "99-zzzzzzzz-final-env.sh">>

\* Singularity.mkenv
mkenv(name, tag, editor, editor_args) ==
    <<MkfileItem(EnvFile,
        List(<<<<"#!/bin/sh">>,
               <<"export EDITOR='", editor, "'">>,
               <<"export EDITOR_ARGUMENTS='", editor_args, "'">>,
               <<"prompt='#'">>,
               <<"grep -q '^overlay /' /proc/mounts && prompt='$'">>,
               <<"export PS1=\"(", name>>
                 \o (IF tag # "" THEN <<":", tag>> ELSE <<>>)
                 \o <<") $USER@$SINGULARITY_NAME \\w $prompt \"">>>>),
        ExecPerms, "mkenv")>>

(* ------------------------------ the run: host and image --------------- *)
RECURSIVE unc_loop(_, _, _, _)
\* UnifiNetworkController.__init__: the loop over ps_bins(), in the set's order
unc_loop(order, i, hv, unc) ==
    IF i > Len(order) THEN [haveged |-> hv, unc |-> unc]
    ELSE LET unc2 == unc \/ order[i] = "unifi"
             hv2  == hv \/ (order[i] # "unifi" /\ EndsWithHaveged(order[i]))
         IN IF hv2 /\ unc2 THEN [haveged |-> hv2, unc |-> unc2]
            ELSE unc_loop(order, i + 1, hv2, unc2)

\* Homebridge.__init__: the loop over ps_bins()
hb_loop(snap) == \E name \in snap : HasAvahi(name)

ReleaseFiles(etc, usr) == ("etc/os-release" :> etc) @@ ("usr/lib/os-release" :> usr)

NoRelease == ReleaseFiles(NoFile, NoFile)

\* what the base image may hold as its os-release
ImageReleases(name, tag) ==
    { ReleaseFiles(File(<<<<"ID", name>>, <<"VERSION_ID", tag>>>>), NoFile),
      ReleaseFiles(NoFile, File(<<<<"ID", name>>>>)),
      NoRelease,
      ReleaseFiles(File(<<<<"ID", name, "x">>>>), NoFile) }

\* files of the base image at paths the recipes write
ImageFiles(ip) ==
    { <<>>,
      (ip \o <<"usr", "local", "bin", "ll">>) :> [data |-> <<"image">>, perms |-> ExecPerms] }

(* ------------------------------ Homebridge config --------------------- *)
Platforms == [platform : {"config", "other", ""}, log : {"", "stdout"}]

Configs == UNION { [1..n -> Platforms] : n \in 0..MaxPlatforms }

RECURSIVE inject_unchecked(_, _)
\* the loop without the `found` test after it
inject_unchecked(data, i) ==
    IF i > Len(data) THEN [data |-> data, found |-> TRUE]
    ELSE IF data[i].platform = "config"
    THEN [data |-> [data EXCEPT ![i].log = "file:/tmp/homebridge.log"],
          found |-> TRUE]
    ELSE inject_unchecked(data, i + 1)

RECURSIVE inject(_, _)
\* Homebridge.__init__: the loop over data['platforms'], from entry i
inject(data, i) ==
    IF i > Len(data) THEN [data |-> data, found |-> FALSE]
    ELSE IF data[i].platform = "config"
    THEN [data |-> [data EXCEPT ![i].log = "file:/tmp/homebridge.log"],
          found |-> TRUE]
    ELSE inject(data, i + 1)

RECURSIVE dumps(_)
\* json.dumps(data, sort_keys=True): "log" sorts before "platform"
dumps(data) ==
    IF data = <<>> THEN <<>>
    ELSE <<"{">>
         \o (IF data[1].log # "" THEN <<"log", data[1].log>> ELSE <<>>)
         \o (IF data[1].platform # "" THEN <<"platform", data[1].platform>> ELSE <<>>)
         \o <<"}">>
         \o dumps(Tail(data))

Staging == <<"/", "homebridge_config.json">>

(* ------------------------------ the run: actions ---------------------- *)
ExitError == 2

others == <<scanVars, osVars, last>>

Raise(e) == pc' = "error" /\ err' = e

Running(fn) == pc = "run" /\ todo # <<>> /\ Head(todo).fn = fn

\* the step at the head of todo replaced by the calls it makes
Expand(items) == todo' = Within(Head(todo), items) \o Tail(todo)

\* main: options, dispatch on the name
Main ==
    /\ pc = "main"
    /\ IF ~(sb_keys(args) \subseteq Accepted(args.name))
       THEN Raise("TypeError") /\ UNCHANGED recipe
       ELSE /\ err' = err
            /\ pc' = CASE args.name = "unc" -> "unc"
                       [] args.name = "hb"  -> "hb"
                       [] OTHER             -> "dd"
            /\ recipe' = Recipe(args.name,
                                IF args.image_path = <<>> THEN <<args.name>>
                                ELSE args.image_path,
                                IF args.tag = "" THEN "latest" ELSE args.tag,
                                args.pkgs, Coerce(args.upgrade))
    /\ UNCHANGED <<args, host, image_path, sandbox, ps, todo, log, calls,
                   dd_updated, cfg, exit, fs, osfiles, others>>

\* UnifiNetworkController.__init__ up to super().__init__
UncInit ==
    /\ pc = "unc"
    /\ IF host.user = "root"
       THEN Raise("RuntimeError") /\ UNCHANGED <<ps, recipe>>
       ELSE \E snap \in SUBSET ProcNames, raised \in BOOLEAN :
              IF raised
              THEN Raise("FileNotFoundError") /\ UNCHANGED <<ps, recipe>>
              ELSE /\ ps' = snap
                   /\ \E order \in Perms(snap) :
                        IF unc_loop(order, 1, FALSE, FALSE).unc
                        THEN Raise("RuntimeError") /\ UNCHANGED recipe
                        ELSE /\ pc' = "dd" /\ err' = err
                             /\ recipe' = Recipe("ubuntu",
                                    IF recipe.image_path = <<>> THEN <<"unc">>
                                    ELSE recipe.image_path,
                                    IF host.armhf THEN "xenial" ELSE "focal",
                                    UncPkgs, TRUE)
    /\ UNCHANGED <<args, host, image_path, sandbox, todo, log, calls,
                   dd_updated, cfg, exit, fs, osfiles, others>>

\* Homebridge.__init__ up to super().__init__
HbInit ==
    /\ pc = "hb"
    /\ \E snap \in SUBSET ProcNames, raised \in BOOLEAN :
         IF raised
         THEN Raise("FileNotFoundError") /\ UNCHANGED <<ps, recipe>>
         ELSE /\ ps' = snap
              /\ pc' = "dd" /\ err' = err
              /\ recipe' = Recipe("ubuntu",
                     IF recipe.image_path = <<>> THEN <<"hb">>
                     ELSE recipe.image_path,
                     "focal",
                     IF ~hb_loop(snap) THEN Append(HbPkgs, "avahi-daemon")
                     ELSE HbPkgs,
                     TRUE)
    /\ UNCHANGED <<args, host, image_path, sandbox, todo, log, calls,
                   dd_updated, cfg, exit, fs, osfiles, others>>

\* DistroDocker.__init__ with a Singularity.__init__ that does not look at
\* the target path
DdInitOverwrite ==
    /\ pc = "dd"
    /\ image_path' = resolved_path(IF recipe.image_path = <<>>
                                   THEN <<recipe.name>> ELSE recipe.image_path)
    /\ dd_updated' = FALSE
    /\ IF host.prog = ""
       THEN Raise("FileNotFoundError") /\ UNCHANGED todo
       ELSE pc' = "run" /\ err' = err /\ todo' = plan(args.name, recipe)
    /\ UNCHANGED <<args, host, recipe, sandbox, ps, log, calls, cfg, exit,
                   fs, osfiles, others>>

\* DistroDocker.__init__ up to the build, Singularity.__init__ included
DdInit ==
    /\ pc = "dd"
    /\ image_path' = resolved_path(IF recipe.image_path = <<>>
                                   THEN <<recipe.name>> ELSE recipe.image_path)
    /\ dd_updated' = FALSE
    /\ IF sandbox = "preexisting"
       THEN Raise("FileExistsError") /\ UNCHANGED todo
       ELSE IF host.prog = ""
       THEN Raise("FileNotFoundError") /\ UNCHANGED todo
       ELSE pc' = "run" /\ err' = err /\ todo' = plan(args.name, recipe)
    /\ UNCHANGED <<args, host, recipe, sandbox, ps, log, calls, cfg, exit,
                   fs, osfiles, others>>

\* Singularity.build through Singularity._run
Build ==
    /\ Running("build")
    /\ \E rc \in {0, 1} :
         /\ log' = Append(log, Op("build", Head(todo), image_path,
                                  <<"docker", recipe.name, recipe.tag>>, rc,
                                  IF rc # 0 THEN "CalledProcessError" ELSE ""))
         /\ IF rc # 0
            THEN /\ Raise("CalledProcessError")
                 /\ sandbox' \in {"absent", "partial"}
                 /\ UNCHANGED <<todo, fs, osfiles>>
            ELSE /\ pc' = pc /\ err' = err
                 /\ sandbox' = "built"
                 /\ todo' = Tail(todo)
                 /\ \E img \in ImageFiles(image_path) : fs' = img @@ fs
                 /\ osfiles' \in ImageReleases(recipe.name, recipe.tag)
    /\ UNCHANGED <<args, host, recipe, image_path, ps, calls, dd_updated, cfg,
                   exit, others>>

\* Singularity.exec with the tool's exit code ignored (sp_run without check)
ExecNoCheck ==
    /\ Running("exec")
    /\ \E rc \in {0, 1} :
         log' = Append(log, Op("exec", Head(todo), image_path, Head(todo).cmd,
                               rc, IF rc # 0 THEN "CalledProcessError" ELSE ""))
    /\ todo' = Tail(todo)
    /\ UNCHANGED <<args, host, pc, err, recipe, image_path, sandbox, ps, calls,
                   dd_updated, cfg, exit, fs, osfiles, others>>

\* Singularity.exec through Singularity._run
Exec ==
    /\ Running("exec")
    /\ \E rc \in {0, 1} :
         /\ log' = Append(log, Op("exec", Head(todo), image_path, Head(todo).cmd,
                                  rc, IF rc # 0 THEN "CalledProcessError" ELSE ""))
         /\ IF rc # 0
            THEN Raise("CalledProcessError") /\ UNCHANGED todo
            ELSE pc' = pc /\ err' = err /\ todo' = Tail(todo)
    /\ UNCHANGED <<args, host, recipe, image_path, sandbox, ps, calls,
                   dd_updated, cfg, exit, fs, osfiles, others>>

\* Singularity.mkfile
Mkfile ==
    /\ Running("mkfile")
    /\ \E permitted \in Permits(image_path, PathJoin(image_path, Head(todo).rel)) :
         LET it == Head(todo)
             r  == mkfile(fs, image_path, it.rel, it.data, it.perms, permitted)
         IN /\ log' = Append(log, Op("mkfile", it, r.p, <<>>, 0, r.raised))
            /\ fs' = r.fs
            /\ IF r.raised # ""
               THEN Raise(r.raised) /\ UNCHANGED todo
               ELSE pc' = pc /\ err' = err /\ todo' = Tail(todo)
    /\ UNCHANGED <<args, host, recipe, image_path, sandbox, ps, calls,
                   dd_updated, cfg, exit, osfiles, others>>

\* Singularity.localtime
Localtime ==
    /\ Running("localtime")
    /\ LET dst == image_path \o <<"etc", "localtime">>
       IN /\ log' = Append(log, Op("copy", Head(todo), dst, <<>>, 0, ""))
          /\ fs' = (dst :> [data |-> <<"/etc/localtime">>, perms |-> DefaultPerms]) @@ fs
    /\ todo' = Tail(todo)
    /\ UNCHANGED <<args, host, pc, recipe, image_path, sandbox, ps, calls,
                   dd_updated, cfg, err, exit, osfiles, others>>

\* Singularity.helpers
Helpers ==
    /\ Running("helpers")
    /\ Expand(helpers)
    /\ UNCHANGED <<args, host, pc, recipe, image_path, sandbox, ps, log, calls,
                   dd_updated, cfg, err, exit, fs, osfiles, others>>

\* DistroDocker.mkenv
Mkenv ==
    /\ Running("mkenv")
    /\ LET o == OSrelease(osfiles)
       IN IF o.state # "ok"
          THEN Raise(o.state) /\ UNCHANGED todo
          ELSE /\ pc' = pc /\ err' = err
               /\ Expand(mkenv(getattr(o, DefaultMode, "id").value,
                               getattr(o, DefaultMode, "version_id").value,
                               recipe.editor, recipe.editor_args))
    /\ UNCHANGED <<args, host, recipe, image_path, sandbox, ps, log, calls,
                   dd_updated, cfg, exit, fs, osfiles, others>>

\* DistroDocker.install
Install ==
    /\ Running("install")
    /\ Expand(install(dd_pkgs(recipe)))
    /\ UNCHANGED <<args, host, pc, recipe, image_path, sandbox, ps, log, calls,
                   dd_updated, cfg, err, exit, fs, osfiles, others>>

\* DistroDocker.upgrade
Upgrade ==
    /\ Running("upgrade")
    /\ Expand(upgrade)
    /\ UNCHANGED <<args, host, pc, recipe, image_path, sandbox, ps, log, calls,
                   dd_updated, cfg, err, exit, fs, osfiles, others>>

\* DistroDocker.update
Update ==
    /\ Running("update")
    /\ Expand(update(dd_updated))
    /\ calls' = Append(calls, <<"update", Head(todo).by>>)
    /\ UNCHANGED <<args, host, pc, recipe, image_path, sandbox, ps, log,
                   dd_updated, cfg, err, exit, fs, osfiles, others>>

\* DistroDocker.update without the assignment to the flag
SetUpdatedNever ==
    /\ Running("set_updated")
    /\ todo' = Tail(todo)
    /\ UNCHANGED <<args, host, pc, recipe, image_path, sandbox, ps, log, calls,
                   dd_updated, cfg, err, exit, fs, osfiles, others>>

\* DistroDocker.update: the flag set once update_distro has returned
SetUpdated ==
    /\ Running("set_updated")
    /\ dd_updated' = TRUE
    /\ todo' = Tail(todo)
    /\ UNCHANGED <<args, host, pc, recipe, image_path, sandbox, ps, log, calls,
                   cfg, err, exit, fs, osfiles, others>>

\* update_distro of the profile's distro
UpdateDistro ==
    /\ Running("update_distro")
    /\ Expand(update_distro(recipe.name))
    /\ calls' = Append(calls, <<"update_distro", Head(todo).by>>)
    /\ UNCHANGED <<args, host, pc, recipe, image_path, sandbox, ps, log,
                   dd_updated, cfg, err, exit, fs, osfiles, others>>

\* upgrade_distro of the profile's distro
UpgradeDistro ==
    /\ Running("upgrade_distro")
    /\ Expand(upgrade_distro(recipe.name))
    /\ UNCHANGED <<args, host, pc, recipe, image_path, sandbox, ps, log, calls,
                   dd_updated, cfg, err, exit, fs, osfiles, others>>

\* install_distro of the profile's distro
InstallDistro ==
    /\ Running("install_distro")
    /\ Expand(install_distro(recipe.name, Head(todo).cmd))
    /\ UNCHANGED <<args, host, pc, recipe, image_path, sandbox, ps, log, calls,
                   dd_updated, cfg, err, exit, fs, osfiles, others>>

\* Homebridge.__init__: hb_p.mkdir(exist_ok=True)
Mkdir ==
    /\ Running("mkdir")
    /\ log' = Append(log, Op("mkdir", Head(todo),
                             image_path \o <<"root", ".homebridge">>, <<>>, 0, ""))
    /\ todo' = Tail(todo)
    /\ UNCHANGED <<args, host, pc, recipe, image_path, sandbox, ps, calls,
                   dd_updated, cfg, err, exit, fs, osfiles, others>>

\* Homebridge.__init__: config.json loaded, the log added, staged and moved
Config ==
    /\ Running("config")
    /\ \E data \in Configs :
         LET r == inject(data, 1)
         IN /\ cfg' = [loaded |-> data, data |-> r.data]
            /\ IF ~r.found
               THEN Raise("RuntimeError") /\ UNCHANGED todo
               ELSE /\ pc' = pc /\ err' = err
                    /\ Expand(<<MkfileItem(Staging, Str(dumps(r.data)),
                                           DefaultPerms, "hb"),
                                ExecItem(<<"mv", "-v", "/homebridge_config.json",
                                           "/root/.homebridge/config.json">>, "hb")>>)
    /\ UNCHANGED <<args, host, recipe, image_path, sandbox, ps, log, calls,
                   dd_updated, exit, fs, osfiles, others>>

\* main: the constructor returned
Return ==
    /\ pc = "run" /\ todo = <<>>
    /\ pc' = "exit" /\ exit' = 0
    /\ UNCHANGED <<args, host, recipe, image_path, sandbox, ps, todo, log,
                   calls, dd_updated, cfg, err, fs, osfiles, others>>

\* main: except Exception -> p.error
Except ==
    /\ pc = "error"
    /\ pc' = "exit" /\ exit' = ExitError
    /\ UNCHANGED <<args, host, recipe, image_path, sandbox, ps, todo, log,
                   calls, dd_updated, cfg, err, fs, osfiles, others>>

RunInit ==
    /\ args \in [name : Profiles, image_path : ImagePathArgs,
                 tag : {"", "edge"}, pkgs : {<<>>, <<"git">>},
                 upgrade : {"", "Yes", "off"}, bad : BOOLEAN]
    /\ host \in [user : {"root", "me"}, prog : {"", "/usr/bin/singularity"},
                 armhf : BOOLEAN, exists : BOOLEAN]
    /\ args.name # "unc" => ~host.armhf
    /\ args.name \notin {"unc", "hb"} => host.user = "me"
    /\ sandbox = IF host.exists THEN "preexisting" ELSE "absent"
    /\ pc = "main"
    /\ recipe = NoRecipe
    /\ image_path = <<>>
    /\ ps = {}
    /\ todo = <<>>
    /\ log = <<>>
    /\ calls = <<>>
    /\ dd_updated = FALSE
    /\ fs = <<>>
    /\ osfiles = NoRelease
    /\ cfg = [loaded |-> <<>>, data |-> <<>>]
    /\ err = ""
    /\ exit = -1

IdleScan == proc = <<>> /\ scan = "idle" /\ pending = {} /\ cur = <<>> /\ s = {}
IdleOS   == /\ os = [state |-> "idle", fname |-> "", data |-> <<>>, reads |-> <<>>]
            /\ mode = DefaultMode
            /\ got = [attr |-> "", value |-> "", raised |-> ""]
NoCall == [op |-> "", p |-> <<>>, rel |-> <<>>, data |-> Str(<<>>), perms |-> 0,
           raised |-> "", before |-> <<>>]
IdleFile == last = NoCall

Init == RunInit /\ IdleScan /\ IdleOS /\ IdleFile

Next ==
    \/ Main \/ UncInit \/ HbInit \/ DdInit
    \/ Build \/ Exec \/ Mkfile \/ Localtime \/ Helpers \/ Mkenv
    \/ Install \/ Upgrade \/ Update \/ SetUpdated
    \/ UpdateDistro \/ UpgradeDistro \/ InstallDistro
    \/ Mkdir \/ Config \/ Return \/ Except

Spec == Init /\ [][Next]_vars

(* ------------------------------ the run: properties ------------------- *)
Count(q, x) == Cardinality({i \in DOMAIN q : q[i] = x})

IsTool(e)   == e.op \in {"build", "exec"}
Failed(e)   == IsTool(e) /\ e.rc # 0
IsEnv(e)    == e.op = "mkfile" /\ e.by = "mkenv"
IsPkgCmd(e) == e.op = "exec" /\ e.by \in {"update_distro", "upgrade_distro", "install_distro"}
IsUpdateCmd(e) == e.op = "exec" /\ e.cmd \in {<<"apk", "update">>, <<"apt", "-y", "update">>}
IsMove(e)   == e.op = "exec" /\ e.cmd[1] = "mv"
IsStaging(e) == e.op = "mkfile" /\ e.by = "hb"

\* C1: the operations of a run are started in the order of the recipe's
\* steps; a build or exec that returned non-zero is the last operation the run
\* ever starts (nothing follows it, it is not repeated), the run is then in
\* the error state and exits with the non-zero status.
C1_FailStop ==
    /\ \A i, j \in DOMAIN log : i < j => log[i].idx <= log[j].idx
    /\ \A i \in DOMAIN log : Failed(log[i]) => i = Len(log)
    /\ \A i \in DOMAIN log : Failed(log[i]) =>
          /\ pc \in {"error", "exit"}
          /\ err = "CalledProcessError"
          /\ pc = "exit" => exit = ExitError
    /\ exit = 0 => \A i \in DOMAIN log : ~Failed(log[i]) /\ log[i].raised = ""

C1_Witness ==
    /\ pc = "exit" /\ exit = ExitError
    /\ Len(log) >= 6
    /\ log[Len(log)].op = "exec" /\ log[Len(log)].rc # 0
    /\ Len(todo) >= 2

\* the prechecks a run can violate
Violation ==
    \/ host.exists
    \/ host.prog = ""
    \/ args.name = "unc" /\ host.user = "root"
    \/ args.name = "unc" /\ "unifi" \in ps

\* C2: when the target path exists, or singularity is not found, or the
\* network-controller profile runs as root or finds a process `unifi`, the run
\* makes no build, no exec and no file write, creates no sandbox, and fails.
C2_PrecheckBeforeMutation ==
    Violation =>
        /\ log = <<>>
        /\ DOMAIN fs = {}
        /\ sandbox \in {"absent", "preexisting"}
        /\ sandbox = "absent" <=> ~host.exists
        /\ pc # "run"
        /\ pc = "exit" => exit = ExitError

C2_Witness ==
    /\ args.name = "unc" /\ "unifi" \in ps /\ ps # {"unifi"}
    /\ host.user # "root" /\ ~host.exists /\ host.prog # ""
    /\ pc = "exit" /\ exit = ExitError /\ err = "RuntimeError"

\* C3 as claimed: the distro's package-index update command runs at most once
\* in a build.
C3_UpdateOnce ==
    Cardinality({i \in DOMAIN log : IsUpdateCmd(log[i])}) <= 1

UpdateCalls == {i \in DOMAIN calls : calls[i][1] = "update"}

\* C3 amended: update() calls update_distro at most once in a build, and
\* exactly once when update() was called twice; an update_distro call issues
\* at most one command (none on Fedora); only the network-controller recipe
\* calls update_distro itself, once, so only there a second update command runs.
C3_UpdateMemoized ==
    /\ Count(calls, <<"update_distro", "update">>) <= 1
    /\ Cardinality(UpdateCalls) >= 2 => Count(calls, <<"update_distro", "update">>) = 1
    /\ Cardinality({i \in DOMAIN log : IsUpdateCmd(log[i])})
          <= Cardinality({i \in DOMAIN calls : calls[i][1] = "update_distro"})
    /\ Count(calls, <<"update_distro", "unc">>) <= (IF args.name = "unc" THEN 1 ELSE 0)
    /\ \A i \in DOMAIN calls :
          calls[i][1] = "update_distro" => calls[i][2] \in {"update", "unc"}

C3_Witness ==
    /\ args.name = "ubuntu" /\ exit = 0
    /\ Cardinality(UpdateCalls) = 2
    /\ Cardinality({i \in DOMAIN log : IsUpdateCmd(log[i])}) = 1

\* C4 as claimed: the shell-profile file is written only after every distro
\* package command (update, upgrade, install) of the build.
C4_MkenvAfterDistroSteps ==
    \A i, j \in DOMAIN log : IsEnv(log[i]) /\ IsPkgCmd(log[j]) => j < i

\* C4 amended: the shell-profile file is written after the build, the
\* localtime copy and the helper scripts, and before any command is run in the
\* sandbox: install and upgrade are appended after mkenv.
C4_MkenvBeforeDistroSteps ==
    \A i \in DOMAIN log : IsEnv(log[i]) =>
        /\ log[1].op = "build" /\ log[1].rc = 0
        /\ \A j \in 1..(i - 1) : log[j].op \in {"build", "copy", "mkfile"}
        /\ \A j \in DOMAIN log : IsPkgCmd(log[j]) => i < j

C4_Witness ==
    /\ exit = 0 /\ args.name = "alpine"
    /\ \E i, j \in DOMAIN log :
          /\ i < j /\ IsEnv(log[i]) /\ log[i].raised = ""
          /\ IsPkgCmd(log[j]) /\ log[j].by = "upgrade_distro"

\* the path and the spec main's arguments ask for
ExpectedPath ==
    IF args.image_path = <<>> THEN cwd \o <<args.name>>
    ELSE IF IsAbs(args.image_path) THEN args.image_path
    ELSE cwd \o args.image_path

ExpectedSpec ==
    CASE args.name = "unc" -> <<"docker", "ubuntu", IF host.armhf THEN "xenial" ELSE "focal">>
      [] args.name = "hb"  -> <<"docker", "ubuntu", "focal">>
      [] OTHER -> <<"docker", args.name, IF args.tag = "" THEN "latest" ELSE args.tag>>

\* the constructor got past Singularity.__init__
Passed == image_path # <<>> /\ ~host.exists /\ host.prog # ""

\* C6: a run that passes the prechecks invokes build exactly once, on the
\* resolved target path with docker://<name>:<tag>, before any exec or file
\* operation: the first operation of every run is the build.
C6_BuildOnceFirst ==
    /\ Cardinality({i \in DOMAIN log : log[i].op = "build"}) <= 1
    /\ log # <<>> =>
          /\ log[1].op = "build"
          /\ log[1].path = ExpectedPath
          /\ log[1].cmd = ExpectedSpec
    /\ \A i \in DOMAIN log : i > 1 => sandbox = "built"
    /\ Passed /\ pc = "run" /\ log = <<>> => Head(todo).fn = "build"
    /\ Passed /\ pc \in {"error", "exit"} =>
          Cardinality({i \in DOMAIN log : log[i].op = "build"}) = 1

C6_Witness ==
    /\ args.name = "unc" /\ host.armhf /\ args.image_path = <<"sub", "sb">>
    /\ pc = "exit" /\ exit = 0
    /\ Len(log) > 8

HasConfig(data) == \E k \in DOMAIN data : data[k].platform = "config"

\* the config step of the bridge recipe has run
ConfigDone ==
    /\ args.name = "hb"
    /\ \E i \in DOMAIN log : log[i].op = "mkdir"
    /\ ~Running("config")

\* the first entry with platform "config" got the log, nothing else changed
Injected ==
    \E k \in DOMAIN cfg.loaded :
        /\ cfg.loaded[k].platform = "config"
        /\ \A j \in 1..(k - 1) : cfg.loaded[j].platform # "config"
        /\ cfg.data = [cfg.loaded EXCEPT ![k].log = "file:/tmp/homebridge.log"]

\* C8: without a platforms entry "config" the step fails and neither the
\* staging write nor the move is issued; with one, the log is added to the
\* first such entry, the staging file is written with that data, and the move
\* is issued only after it.
C8_ConfigInjection ==
    /\ ConfigDone /\ ~HasConfig(cfg.loaded) =>
          /\ pc \in {"error", "exit"} /\ err = "RuntimeError"
          /\ pc = "exit" => exit = ExitError
          /\ \A i \in DOMAIN log : ~IsStaging(log[i]) /\ ~IsMove(log[i])
    /\ ConfigDone /\ HasConfig(cfg.loaded) =>
          /\ Injected
          /\ pc = "run" /\ todo # <<>> => Head(todo).fn \in {"mkfile", "exec"}
          /\ exit = 0 => \E i \in DOMAIN log : IsMove(log[i])
    /\ \A j \in DOMAIN log : IsMove(log[j]) =>
          /\ ConfigDone /\ Injected
          /\ \E i \in 1..(j - 1) :
                /\ IsStaging(log[i]) /\ log[i].raised = ""
                /\ fs[log[i].path].data = dumps(cfg.data)

C8_Witness ==
    /\ args.name = "hb" /\ pc = "exit" /\ exit = 0
    /\ Len(cfg.loaded) = 2
    /\ cfg.loaded[1].platform = "config" /\ cfg.loaded[2].platform = "config"
    /\ cfg.loaded[1].log = "stdout"
    /\ \E j \in DOMAIN log : IsMove(log[j])

\* C10: every file mkfile creates lies in the sandbox tree.
C10_WritesInsideSandbox ==
    \A i \in DOMAIN log :
        log[i].op = "mkfile" /\ log[i].raised = "" => Inside(image_path, log[i].path)

(* ------------------------------ ps_bins ------------------------------- *)
Digits == {ToString(d) : d \in 0..9}

\* names under /proc: the numeric ones and one that is not
Entries == {<<ToString(k)>> : k \in 1..MaxProcs} \cup {<<"s", "e", "l", "f">>}

\* the glob pattern [0-9]*
Match(e) == e # <<>> /\ e[1] \in Digits

\* argument vectors of the processes
Cmdlines == {<<>>, <<"unifi">>, <<"/usr/sbin/haveged", "-F">>}

\* fh.readline().split('\0') of a record holding each argument and a NUL
cmdline_fields(argv) == argv \o <<"">>

IdleRun ==
    /\ args = [name |-> "", image_path |-> <<>>, tag |-> "", pkgs |-> <<>>,
               upgrade |-> "", bad |-> FALSE]
    /\ host = [user |-> "me", prog |-> "", armhf |-> FALSE, exists |-> FALSE]
    /\ pc = "idle" /\ recipe = NoRecipe /\ image_path = <<>>
    /\ sandbox = "absent" /\ ps = {} /\ todo = <<>> /\ log = <<>>
    /\ calls = <<>> /\ dd_updated = FALSE
    /\ cfg = [loaded |-> <<>>, data |-> <<>>] /\ err = "" /\ exit = -1

notScan == <<runVars, fs, osfiles, osVars, last>>

\* Path(path).glob: the entries of /proc are listed
ScanGlob ==
    /\ scan = "glob"
    /\ pending' = {e \in Entries : proc[e].alive /\ Match(e)}
    /\ scan' = "loop"
    /\ UNCHANGED <<proc, cur, s, notScan>>

\* the glob yields <entry>/cmdline if it exists at that moment
ScanNext ==
    /\ scan = "loop"
    /\ \E e \in pending :
         /\ pending' = pending \ {e}
         /\ IF proc[e].alive
            THEN cur' = e /\ scan' = "open"
            ELSE UNCHANGED <<cur, scan>>
    /\ UNCHANGED <<proc, s, notScan>>

\* open(p)
ScanOpen ==
    /\ scan = "open"
    /\ scan' = IF proc[cur].alive THEN "read" ELSE "raised"
    /\ UNCHANGED <<proc, pending, cur, s, notScan>>

\* fh.readline(), split, add: an exited process reads as ESRCH or as empty
ScanRead ==
    /\ scan = "read"
    /\ IF proc[cur].alive
       THEN /\ scan' = "loop"
            /\ s' = IF cmdline_fields(proc[cur].argv)[1] # ""
                    THEN s \cup {cmdline_fields(proc[cur].argv)[1]} ELSE s
       ELSE \/ scan' = "raised" /\ s' = s
            \/ scan' = "loop" /\ s' = s
    /\ UNCHANGED <<proc, pending, cur, notScan>>

\* return s
ScanReturn ==
    /\ scan = "loop" /\ pending = {}
    /\ scan' = "returned"
    /\ UNCHANGED <<proc, pending, cur, s, notScan>>

\* a process of the host exits while the scan runs
ProcExit ==
    /\ scan \in {"glob", "loop", "open", "read"}
    /\ \E e \in Entries :
         /\ proc[e].alive
         /\ proc' = [proc EXCEPT ![e].alive = FALSE]
    /\ UNCHANGED <<scan, pending, cur, s, notScan>>

ScanInit ==
    /\ proc \in [Entries -> [alive : BOOLEAN, argv : Cmdlines]]
    /\ scan = "glob" /\ pending = {} /\ cur = <<>> /\ s = {}
    /\ IdleRun /\ fs = <<>> /\ osfiles = NoRelease /\ IdleOS /\ IdleFile

NextScan == ScanGlob \/ ScanNext \/ ScanOpen \/ ScanRead \/ ScanReturn \/ ProcExit

SpecScan == ScanInit /\ [][NextScan]_vars

\* C5: the scan never raises, whatever processes exit while it runs.
C5_ScanNeverFails == scan # "raised"

(* ------------------------------ OSrelease: operations ----------------- *)
Rows == {<<"ID", "alpine">>, <<"VERSION_ID", "3.18">>, <<"NAME", "Alpine Linux">>,
         <<"ID", "a", "b">>}

ReleaseFile == {NoFile} \cup {File(r) : r \in UNION {[1..n -> Rows] : n \in 0..MaxRows}}

Attrs == {"id", "ID", "NAME", "name", "PRETTY_NAME", "version_id", "home_url"}

notOS == <<runVars, fs, osfiles, scanVars, last>>

\* o = OSrelease(root, case_sensitive, exact)
Construct ==
    /\ os.state = "idle"
    /\ os' = OSrelease(osfiles)
    /\ UNCHANGED <<mode, got, notOS>>

\* o.<attr>
Lookup ==
    /\ os.state = "ok"
    /\ \E attr \in Attrs : got' = getattr(os, mode, attr)
    /\ UNCHANGED <<os, mode, notOS>>

OSInit ==
    /\ osfiles \in [{Candidates[1], Candidates[2]} -> ReleaseFile]
    /\ mode \in [case_sensitive : BOOLEAN, exact : BOOLEAN]
    /\ os = [state |-> "idle", fname |-> "", data |-> <<>>, reads |-> <<>>]
    /\ got = [attr |-> "", value |-> "", raised |-> ""]
    /\ IdleRun /\ fs = <<>> /\ IdleScan /\ IdleFile

NextOS == Construct \/ Lookup

SpecOS == OSInit /\ [][NextOS]_vars

\* what the claim gives for a lookup when no os-release file exists
DefaultValue(attr, cs) ==
    CASE attr = "ID" -> "linux"
      [] attr = "NAME" -> "Linux"
      [] attr = "PRETTY_NAME" -> "Linux"
      [] attr = "id" /\ ~cs -> "linux"
      [] attr = "name" /\ ~cs -> "Linux"
      [] OTHER -> ""

\* C9: the first existing candidate of etc/os-release, usr/lib/os-release is
\* the only file read and the one the record comes from; with neither, the
\* record is the defaults NAME=Linux, ID=linux, PRETTY_NAME=Linux and any other
\* key reads as the empty string, or raises in exact mode.
C9_FirstCandidateOnly ==
    os.state # "idle" =>
        LET etc == osfiles["etc/os-release"]
            usr == osfiles["usr/lib/os-release"]
        IN /\ etc.exists => os.reads = <<"etc/os-release">>
           /\ etc.exists /\ os.state = "ok" =>
                 /\ os.fname = "etc/os-release"
                 /\ \A i \in DOMAIN etc.rows : etc.rows[i][1] \in DOMAIN os.data
                 /\ \A k \in DOMAIN os.data :
                       \E i \in DOMAIN etc.rows : etc.rows[i] = <<k, os.data[k]>>
           /\ ~etc.exists /\ usr.exists => os.reads = <<"usr/lib/os-release">>
           /\ ~etc.exists /\ usr.exists /\ os.state = "ok" =>
                 /\ os.fname = "usr/lib/os-release"
                 /\ \A i \in DOMAIN usr.rows : usr.rows[i][1] \in DOMAIN os.data
                 /\ \A k \in DOMAIN os.data :
                       \E i \in DOMAIN usr.rows : usr.rows[i] = <<k, os.data[k]>>
           /\ ~etc.exists /\ ~usr.exists =>
                 /\ os.state = "ok" /\ os.reads = <<>> /\ os.fname = ""
                 /\ got.attr # "" =>
                       IF DefaultValue(got.attr, mode.case_sensitive) # ""
                       THEN got.raised = ""
                            /\ got.value = DefaultValue(got.attr, mode.case_sensitive)
                       ELSE IF mode.exact
                       THEN got.raised = "AttributeError"
                       ELSE got.raised = "" /\ got.value = ""

C9_Witness ==
    /\ ~osfiles["etc/os-release"].exists
    /\ osfiles["usr/lib/os-release"].exists
    /\ os.state = "ok" /\ os.fname = "usr/lib/os-release"
    /\ got.attr = "id" /\ got.value = "alpine"

(* ------------------------------ mkfile: operations -------------------- *)
RelNames == {<<"usr", "local", "bin", "ll">>, EnvFile, <<"etc", "localtime">>}

Texts == {Str(<<>>), Str(<<"a", NL, "b">>), List(<<>>), List(<<<<"a">>>>),
          List(<<<<"a">>, <<"b", "c">>>>)}

notFile == <<args, host, pc, recipe, image_path, sandbox, ps, todo, log, calls,
             dd_updated, cfg, err, exit, osfiles, scanVars, osVars>>

\* sb.mkfile(rel_name, data, perms)
MkfileCall ==
    /\ \E rel \in RelNames, data \in Texts, perms \in {DefaultPerms, ExecPerms} :
         LET r == mkfile(fs, image_path, rel, data, perms, TRUE)
         IN /\ fs' = r.fs
            /\ last' = [op |-> "mkfile", p |-> r.p, rel |-> rel, data |-> data,
                        perms |-> perms, raised |-> r.raised, before |-> fs]
    /\ UNCHANGED notFile

\* sb.localtime()
LocaltimeCall ==
    /\ LET dst == image_path \o <<"etc", "localtime">>
       IN /\ fs' = (dst :> [data |-> <<"/etc/localtime">>, perms |-> DefaultPerms]) @@ fs
          /\ last' = [op |-> "localtime", p |-> dst, rel |-> <<"etc", "localtime">>,
                      data |-> Str(<<>>), perms |-> DefaultPerms, raised |-> "",
                      before |-> fs]
    /\ UNCHANGED notFile

FileInit ==
    /\ args = [name |-> "", image_path |-> <<>>, tag |-> "", pkgs |-> <<>>,
               upgrade |-> "", bad |-> FALSE]
    /\ host = [user |-> "me", prog |-> "", armhf |-> FALSE, exists |-> FALSE]
    /\ pc = "idle" /\ recipe = NoRecipe
    /\ image_path \in {resolved_path(ip) : ip \in ImagePathArgs \ {<<>>}}
    /\ sandbox = "built" /\ ps = {} /\ todo = <<>> /\ log = <<>>
    /\ calls = <<>> /\ dd_updated = FALSE
    /\ cfg = [loaded |-> <<>>, data |-> <<>>] /\ err = "" /\ exit = -1
    /\ fs \in ImageFiles(image_path)
    /\ osfiles = NoRelease /\ IdleScan /\ IdleOS /\ IdleFile

NextFile == MkfileCall \/ LocaltimeCall

SpecFile == FileInit /\ [][NextFile]_vars

\* the text the claim gives for data: a string as it is, a list of lines
\* joined by newlines with one more newline at the end
ExpectedText(d) ==
    IF ~d.islist THEN d.str
    ELSE CASE Len(d.lines) = 0 -> <<NL>>
           [] Len(d.lines) = 1 -> d.lines[1] \o <<NL>>
           [] OTHER -> d.lines[1] \o <<NL>> \o d.lines[2] \o <<NL>>

\* C7: a mkfile call on a path that does not exist creates it with the text
\* and the permission bits given and changes nothing else; a mkfile call on a
\* path that exists raises FileExistsError and changes nothing.
C7_NoOverwrite ==
    last.op = "mkfile" =>
        /\ last.p = image_path \o last.rel
        /\ IF last.p \in DOMAIN last.before
           THEN /\ last.raised = "FileExistsError"
                /\ DOMAIN fs = DOMAIN last.before
                /\ \A q \in DOMAIN fs : fs[q] = last.before[q]
           ELSE /\ last.raised = ""
                /\ DOMAIN fs = DOMAIN last.before \cup {last.p}
                /\ fs[last.p] = [data |-> ExpectedText(last.data), perms |-> last.perms]
                /\ \A q \in DOMAIN last.before : fs[q] = last.before[q]

C7_Witness ==
    /\ last.op = "mkfile"
    /\ last.rel = EnvFile
    /\ last.raised = "FileExistsError"
    /\ last.data = Str(<<>>) /\ last.perms = DefaultPerms
    /\ fs[last.p] = [data |-> <<"a", NL, "b", "c", NL>>, perms |-> ExecPerms]

====
